---- MODULE Spec2Model ----
(***************************************************************************)
(* The Secure Agent Builder wizard: the page controller AgentBuilderPage,  *)
(* its four step components and the REST client, as one state machine.     *)
(* Every event handler (a click, a change, the continuation of an awaited  *)
(* request) is one action; the useEffect that follows the render in which  *)
(* activeStep or agent changed is part of the action that changed them.    *)
(***************************************************************************)
EXTENDS Bags, FiniteSets, Integers, Sequences, TLC

(* ------------------------------ bounds --------------------------------- *)
MaxInFlight == 2        \* requests that may be awaiting a response at once
MaxAgents == 2          \* agents the backend is asked to create in a run

(* ------------------------- strings as characters ----------------------- *)
SP == " "
Str0 == << >>
StrBlank == <<SP, SP>>
StrName == <<SP, "n", SP>>
StrDesc9 == <<SP, "d", "d", "d", "d", "d", "d", "d", "d", "d", SP>>
StrDesc10 == <<"d", "d", "d", "d", "d", "d", "d", "d", "d", "d">>
StrPurp5 == <<"p", "p", SP, "p", "p">>
StrModel == <<"g", "p", "t">>
StrQuestion == <<"q", SP>>

RECURSIVE TrimStart(_)
TrimStart(s) == IF s # << >> /\ Head(s) = SP THEN TrimStart(Tail(s)) ELSE s

RECURSIVE TrimEnd(_)
TrimEnd(s) ==
  IF s # << >> /\ s[Len(s)] = SP THEN TrimEnd(SubSeq(s, 1, Len(s) - 1)) ELSE s

Trim(s) == TrimEnd(TrimStart(s))

(* ------------------------------ messages ------------------------------- *)
MsgLoadTools == "Failed to load tools. Please try again."
MsgLoadSelected == "Failed to load selected tools."
MsgDefinition == "Unable to fetch agent definition. Ensure policy is configured."
MsgCreate == "Unable to create agent. Check inputs."
MsgNoAgent == "Agent not created. Please go back to Metadata step and create the agent first."
MsgSaveTools == "Failed to save tools."
MsgUnusable == "Agent has no tools and all tool calls require approval - this agent will be unusable."
MsgPositive == "Frequency limit must be positive when provided."
MsgSavePolicy == "Failed to save policy."
MsgAsk == "Failed to get an answer"
MsgBackend == "backend detail"

(* ------------------------------- values -------------------------------- *)
steps == <<"metadata", "tools", "policies", "review">>

StepIndex(k) == CHOOSE i \in 1..Len(steps) : steps[i] = k

NoAgent == [id |-> 0]
\* Of an AgentDefinition the page reads agent_id only.
NoDefinition == [agent_id |-> 0]
NoText == [present |-> FALSE, text |-> ""]

ToolCatalog == <<1, 2>>

NullFreq == [isNull |-> TRUE, n |-> 0]
Freq(n) == [isNull |-> FALSE, n |-> n]
FreqInputs == {NullFreq, Freq(0), Freq(1)}

NameInputs == {StrName}
DescInputs == {StrDesc9, StrDesc10}
PurpInputs == {StrPurp5}
QuestionInputs == {Str0, StrBlank, StrQuestion}

\* err?.response?.data?.detail: absent, or the string the backend sent
Text(t) == [present |-> TRUE, text |-> t]
Details == {NoText, Text(""), Text(MsgBackend)}

InitMetadataForm ==
  [name |-> Str0, description |-> Str0, purpose |-> Str0, model |-> StrModel]

InitPolicyForm ==
  [frequency_limit |-> NullFreq, require_approval_for_all_tool_calls |-> FALSE]

\* The saved Policy is stored and never read; agent_id tells whose it is.
NoPolicy == [agent_id |-> 0]

VARIABLES
  activeStep, agent, agentDefinition, availableTools, selectedToolIds,
  policy, error, loading, metadataForm, policyForm,
  question, answer, qaError, qaLoading,
  inflight, created, serverTools

pageVars ==
  <<activeStep, agent, agentDefinition, availableTools, selectedToolIds,
    policy, error, loading, metadataForm, policyForm>>
qaVars == <<question, answer, qaError, qaLoading>>
serverVars == <<created, serverTools>>
vars == <<pageVars, qaVars, inflight, serverVars>>

(* ------------------------------ requests ------------------------------- *)
\* One awaited call of api/client.ts: the endpoint, the agent id of its URL
\* and its body.  stale marks an askAgent whose ReviewStep has unmounted.
Req(kind, agentId) ==
  [kind |-> kind, agentId |-> agentId, toolIds |-> << >>,
   meta |-> InitMetadataForm, pol |-> InitPolicyForm, question |-> Str0,
   stale |-> FALSE]

createAgent(payload) == [Req("createAgent", 0) EXCEPT !.meta = payload]
getTools == Req("getTools", 0)
setAgentTools(agentId, toolIds) ==
  [Req("setAgentTools", agentId) EXCEPT !.toolIds = toolIds]
getAgentTools(agentId) == Req("getAgentTools", agentId)
setPolicy(agentId, payload) == [Req("setPolicy", agentId) EXCEPT !.pol = payload]
getDefinition(agentId) == Req("getDefinition", agentId)
askAgent(agentId, q) == [Req("askAgent", agentId) EXCEPT !.question = q]

Send(reqs, r) == reqs (+) SetToBag({r})
Take(reqs, r) == reqs (-) SetToBag({r})
Pending(kind) == {r \in BagToSet(inflight) : r.kind = kind}
InFlightCount == BagCardinality(inflight)
Room(n) == InFlightCount + n <= MaxInFlight

(* --------------------------- pure functions ---------------------------- *)
Range(s) == {s[i] : i \in 1..Len(s)}

includes(ids, t) == \E i \in 1..Len(ids) : ids[i] = t

filterOut(ids, t) == SelectSeq(ids, LAMBDA id : id # t)

\* Variant: the deselect filter keeps the toggled id instead of dropping it.
ToggleTool_InvertedFilter(ids, t) ==
  IF ~includes(ids, t) THEN Append(ids, t) ELSE SelectSeq(ids, LAMBDA id : id = t)

\* ToolsStep checkbox onChange: the box shows includes(tool.id), so the
\* event carries its negation as e.target.checked.
ToggleTool(ids, t) ==
  IF ~includes(ids, t) THEN Append(ids, t) ELSE filterOut(ids, t)

RECURSIVE SortedSeq(_)
SortedSeq(S) ==
  IF S = {} THEN << >>
  ELSE LET m == CHOOSE x \in S : \A y \in S : x <= y
       IN <<m>> \o SortedSeq(S \ {m})

\* Variant: the lengths taken without trim().
isMetadataValid_NoTrim(form) ==
  /\ Len(form.name) > 0
  /\ Len(form.description) >= 10
  /\ Len(form.purpose) >= 5
  /\ Len(form.model) > 0

isMetadataValid(form) ==
  /\ Len(Trim(form.name)) > 0
  /\ Len(Trim(form.description)) >= 10
  /\ Len(Trim(form.purpose)) >= 5
  /\ Len(Trim(form.model)) > 0

\* detail ?? fallback
Coalesce(d, fallback) == IF d.present THEN d.text ELSE fallback

\* detail || message || fallback
FirstTruthy(d, m, fallback) ==
  IF d.present /\ d.text # "" THEN d.text
  ELSE IF m # "" THEN m
  ELSE fallback

\* Variant: canAsk without the qaLoading term.
canAsk_NoLoadingCheck ==
  /\ agentDefinition.agent_id # 0
  /\ Len(Trim(question)) > 0

canAsk ==
  /\ agentDefinition.agent_id # 0
  /\ Len(Trim(question)) > 0
  /\ ~qaLoading

(* ---------------- the effect on [activeStep, agent] -------------------- *)
\* State after the render that follows a change of activeStep or agent:
\* the effect starts the fetch of the step now shown.
AfterEffect(step, ag, avail, err, ld, reqs) ==
  IF step = "tools" /\ Len(avail) = 0
    THEN [error |-> "", loading |-> ld, inflight |-> Send(reqs, getTools)]
  ELSE IF step = "policies" /\ ag # NoAgent
    THEN [error |-> "", loading |-> ld,
          inflight |-> Send(reqs, getAgentTools(ag.id))]
  ELSE IF step = "review" /\ ag # NoAgent
    THEN [error |-> "", loading |-> TRUE,
          inflight |-> Send(reqs, getDefinition(ag.id))]
  ELSE [error |-> err, loading |-> ld, inflight |-> reqs]

\* ReviewStep's own state exists while the review step is rendered.
QaMount ==
  /\ question' = Str0
  /\ answer' = NoText
  /\ qaError' = NoText
  /\ qaLoading' = FALSE

\* Leaving the review step unmounts ReviewStep: the askAgent calls it still
\* awaits stay in flight, and their continuations set state nobody reads.
Unmounted(reqs) ==
  LET S == BagToSet(reqs)
      mark(r) == IF r.kind = "askAgent" THEN [r EXCEPT !.stale = TRUE] ELSE r
      fresh(t) == [t EXCEPT !.stale = FALSE]
      T == {mark(r) : r \in S}
  IN [t \in T |->
        (IF t \in S THEN reqs[t] ELSE 0)
        + (IF t.kind = "askAgent" /\ fresh(t) \in S THEN reqs[fresh(t)] ELSE 0)]

(* The backend is a collaborator, not part of the page: a response is any
   outcome the REST contract allows.  createAgent answers with a fresh id,
   setAgentTools stores the assignment and answers with the tools just
   assigned, getAgentTools answers with the tools stored for the agent, and
   every request may be rejected, with or without a detail string.
   serverTools is the assignment accepted last; for an agent whose
   assignment is older than that one, getAgentTools answers with some list
   of catalog tools. *)
NoServerTools == [agentId |-> 0, ids |-> << >>]

StoredTools(agentId) ==
  IF serverTools.agentId = agentId
    THEN {serverTools.ids}
    ELSE {SortedSeq(S) : S \in SUBSET Range(ToolCatalog)}

(* -------------------------------- Init --------------------------------- *)
Init ==
  /\ activeStep = "metadata"
  /\ agent = NoAgent
  /\ agentDefinition = NoDefinition
  /\ availableTools = << >>
  /\ selectedToolIds = << >>
  /\ policy = NoPolicy
  /\ error = ""
  /\ loading = FALSE
  /\ metadataForm = InitMetadataForm
  /\ policyForm = InitPolicyForm
  /\ question = Str0
  /\ answer = NoText
  /\ qaError = NoText
  /\ qaLoading = FALSE
  /\ inflight = EmptyBag
  /\ created = 0
  /\ serverTools = NoServerTools

(* --------------------------- metadata step ----------------------------- *)
\* MetadataStep inputs: onChange replaces one field of the form.
EditMetadata ==
  /\ activeStep = "metadata"
  /\ \E f \in {"name", "description", "purpose"} :
       \E v \in (IF f = "name" THEN NameInputs
                 ELSE IF f = "description" THEN DescInputs ELSE PurpInputs) :
         /\ metadataForm[f] # v
         /\ metadataForm' = [metadataForm EXCEPT ![f] = v]
  /\ UNCHANGED <<activeStep, agent, agentDefinition, availableTools,
                 selectedToolIds, policy, error, loading, policyForm,
                 qaVars, inflight, serverVars>>

\* "Next: Tools" is disabled unless isValid and not loading.
NextToolsEnabled ==
  /\ activeStep = "metadata"
  /\ isMetadataValid(metadataForm)
  /\ ~loading

\* handleCreateAgent up to its await.
ClickCreateAgent ==
  /\ NextToolsEnabled
  /\ Room(1)
  /\ error' = ""
  /\ loading' = TRUE
  /\ inflight' = Send(inflight, createAgent(metadataForm))
  /\ UNCHANGED <<activeStep, agent, agentDefinition, availableTools,
                 selectedToolIds, policy, metadataForm, policyForm,
                 qaVars, serverVars>>

\* Variant: the success path without setAgent(created).
CreateAgentOk_KeepsNoAgent ==
  \E r \in Pending("createAgent") :
    /\ created < MaxAgents
    /\ created' = created + 1
    /\ UNCHANGED <<agent, serverTools>>
    /\ activeStep' = "tools"
    /\ LET e == AfterEffect("tools", agent, availableTools, error, FALSE,
                            Take(inflight, r))
       IN /\ error' = e.error
          /\ loading' = e.loading
          /\ inflight' = e.inflight
    /\ UNCHANGED <<agentDefinition, availableTools, selectedToolIds, policy,
                   metadataForm, policyForm, qaVars>>

\* handleCreateAgent after the await resolves, and the effect that follows.
CreateAgentOk ==
  \E r \in Pending("createAgent") :
    /\ created < MaxAgents
    /\ created' = created + 1
    /\ agent' = [id |-> created + 1]
    /\ UNCHANGED serverTools
    /\ activeStep' = "tools"
    /\ LET e == AfterEffect("tools", agent', availableTools, error, FALSE,
                            Take(inflight, r))
       IN /\ error' = e.error
          /\ loading' = e.loading
          /\ inflight' = e.inflight
    /\ UNCHANGED <<agentDefinition, availableTools, selectedToolIds, policy,
                   metadataForm, policyForm, qaVars>>

\* Variant: setActiveStep("tools") after the try block instead of inside it.
CreateAgentFail_Advances ==
  \E r \in Pending("createAgent") : \E d \in Details :
    /\ error' = Coalesce(d, MsgCreate)
    /\ loading' = FALSE
    /\ activeStep' = "tools"
    /\ inflight' = Take(inflight, r)
    /\ UNCHANGED <<agent, agentDefinition, availableTools,
                   selectedToolIds, policy, metadataForm, policyForm,
                   qaVars, serverVars>>

\* handleCreateAgent after the await rejects.
CreateAgentFail ==
  \E r \in Pending("createAgent") : \E d \in Details :
    /\ error' = Coalesce(d, MsgCreate)
    /\ loading' = FALSE
    /\ inflight' = Take(inflight, r)
    /\ UNCHANGED <<activeStep, agent, agentDefinition, availableTools,
                   selectedToolIds, policy, metadataForm, policyForm,
                   qaVars, serverVars>>

(* ----------------------------- tools step ------------------------------ *)
\* fetchTools after its await.
GetToolsOk ==
  \E r \in Pending("getTools") :
    /\ availableTools' = ToolCatalog
    /\ inflight' = Take(inflight, r)
    /\ UNCHANGED <<activeStep, agent, agentDefinition, selectedToolIds,
                   policy, error, loading, metadataForm, policyForm,
                   qaVars, serverVars>>

GetToolsFail ==
  \E r \in Pending("getTools") :
    /\ error' = MsgLoadTools
    /\ inflight' = Take(inflight, r)
    /\ UNCHANGED <<activeStep, agent, agentDefinition, availableTools,
                   selectedToolIds, policy, loading, metadataForm,
                   policyForm, qaVars, serverVars>>

\* A tool's checkbox is clicked.
Toggle ==
  /\ activeStep = "tools"
  /\ \E t \in Range(availableTools) :
       /\ selectedToolIds' = ToggleTool(selectedToolIds, t)
  /\ UNCHANGED <<activeStep, agent, agentDefinition, availableTools, policy,
                 error, loading, metadataForm, policyForm, qaVars, inflight,
                 serverVars>>

\* ToolsStep Back: onBack sets the step; the effect sees "metadata".
BackToMetadata ==
  /\ activeStep = "tools"
  /\ ~loading
  /\ activeStep' = "metadata"
  /\ LET e == AfterEffect("metadata", agent, availableTools, error, loading,
                          inflight)
     IN /\ error' = e.error
        /\ loading' = e.loading
        /\ inflight' = e.inflight
  /\ UNCHANGED <<agent, agentDefinition, availableTools, selectedToolIds,
                 policy, metadataForm, policyForm, qaVars, serverVars>>

\* Variant: "Next: Policies" not disabled while loading.
ClickSaveTools_NoLoadingGuard ==
  /\ activeStep = "tools"
  /\ IF agent = NoAgent
       THEN /\ error' = MsgNoAgent
            /\ UNCHANGED <<loading, inflight>>
       ELSE /\ Room(1)
            /\ error' = ""
            /\ loading' = TRUE
            /\ inflight' = Send(inflight, setAgentTools(agent.id, selectedToolIds))
  /\ UNCHANGED <<activeStep, agent, agentDefinition, availableTools,
                 selectedToolIds, policy, metadataForm, policyForm, qaVars,
                 serverVars>>

\* handleSaveTools up to its await ("Next: Policies" is disabled by loading).
ClickSaveTools ==
  /\ activeStep = "tools"
  /\ ~loading
  /\ IF agent = NoAgent
       THEN /\ error' = MsgNoAgent
            /\ UNCHANGED <<loading, inflight>>
       ELSE /\ Room(1)
            /\ error' = ""
            /\ loading' = TRUE
            /\ inflight' = Send(inflight, setAgentTools(agent.id, selectedToolIds))
  /\ UNCHANGED <<activeStep, agent, agentDefinition, availableTools,
                 selectedToolIds, policy, metadataForm, policyForm, qaVars,
                 serverVars>>

\* handleSaveTools after the await resolves, and the effect that follows.
SaveToolsOk ==
  \E r \in Pending("setAgentTools") :
    /\ serverTools' = [agentId |-> r.agentId,
                       ids |-> SortedSeq(Range(r.toolIds))]
    /\ selectedToolIds' = serverTools'.ids
    /\ activeStep' = "policies"
    /\ LET e == AfterEffect("policies", agent, availableTools, error, FALSE,
                            Take(inflight, r))
       IN /\ error' = e.error
          /\ loading' = e.loading
          /\ inflight' = e.inflight
    /\ UNCHANGED <<agent, agentDefinition, availableTools, policy,
                   metadataForm, policyForm, qaVars, created>>

\* Variant: the catch block without the finally that clears loading.
SaveToolsFail_KeepsLoading ==
  \E r \in Pending("setAgentTools") : \E d \in Details :
    /\ error' = Coalesce(d, MsgSaveTools)
    /\ inflight' = Take(inflight, r)
    /\ UNCHANGED <<activeStep, agent, agentDefinition, availableTools,
                   selectedToolIds, policy, loading, metadataForm,
                   policyForm, qaVars, serverVars>>

\* handleSaveTools when the await rejects: catch, then finally.
SaveToolsFail ==
  \E r \in Pending("setAgentTools") : \E d \in Details :
    /\ error' = Coalesce(d, MsgSaveTools)
    /\ loading' = FALSE
    /\ inflight' = Take(inflight, r)
    /\ UNCHANGED <<activeStep, agent, agentDefinition, availableTools,
                   selectedToolIds, policy, metadataForm, policyForm,
                   qaVars, serverVars>>

\* fetchSelectedTools after its await.
GetAgentToolsOk ==
  \E r \in Pending("getAgentTools") : \E ids \in StoredTools(r.agentId) :
    /\ selectedToolIds' = ids
    /\ inflight' = Take(inflight, r)
    /\ UNCHANGED <<activeStep, agent, agentDefinition, availableTools,
                   policy, error, loading, metadataForm, policyForm,
                   qaVars, serverVars>>

GetAgentToolsFail ==
  \E r \in Pending("getAgentTools") :
    /\ error' = MsgLoadSelected
    /\ inflight' = Take(inflight, r)
    /\ UNCHANGED <<activeStep, agent, agentDefinition, availableTools,
                   selectedToolIds, policy, loading, metadataForm,
                   policyForm, qaVars, serverVars>>

(* ---------------------------- policies step ---------------------------- *)
\* PolicyStep inputs: the number field and the approval checkbox.
EditPolicy ==
  /\ activeStep = "policies"
  /\ \/ \E v \in FreqInputs :
          /\ policyForm.frequency_limit # v
          /\ policyForm' = [policyForm EXCEPT !.frequency_limit = v]
     \/ policyForm' =
          [policyForm EXCEPT !.require_approval_for_all_tool_calls =
                               ~policyForm.require_approval_for_all_tool_calls]
  /\ UNCHANGED <<activeStep, agent, agentDefinition, availableTools,
                 selectedToolIds, policy, error, loading, metadataForm,
                 qaVars, inflight, serverVars>>

\* Variant: onBack of the policy step wired to "metadata".
BackToTools_SkipsToMetadata ==
  /\ activeStep = "policies"
  /\ ~loading
  /\ activeStep' = "metadata"
  /\ LET e == AfterEffect("metadata", agent, availableTools, error, loading,
                          inflight)
     IN /\ error' = e.error
        /\ loading' = e.loading
        /\ inflight' = e.inflight
  /\ UNCHANGED <<agent, agentDefinition, availableTools, selectedToolIds,
                 policy, metadataForm, policyForm, qaVars, serverVars>>

\* PolicyStep Back: onBack sets the step; the effect may fetch the tools.
BackToTools ==
  /\ activeStep = "policies"
  /\ ~loading
  /\ Len(availableTools) = 0 => Room(1)
  /\ activeStep' = "tools"
  /\ LET e == AfterEffect("tools", agent, availableTools, error, loading,
                          inflight)
     IN /\ error' = e.error
        /\ loading' = e.loading
        /\ inflight' = e.inflight
  /\ UNCHANGED <<agent, agentDefinition, availableTools, selectedToolIds,
                 policy, metadataForm, policyForm, qaVars, serverVars>>

\* Variant: frequency_limit < 0 in place of <= 0.
ClickSavePolicy_AllowsZero ==
  /\ activeStep = "policies"
  /\ ~loading
  /\ IF agent = NoAgent
       THEN /\ error' = MsgNoAgent
            /\ UNCHANGED <<loading, inflight>>
     ELSE IF /\ policyForm.require_approval_for_all_tool_calls
             /\ Len(selectedToolIds) = 0
       THEN /\ error' = MsgUnusable
            /\ UNCHANGED <<loading, inflight>>
     ELSE IF /\ ~policyForm.frequency_limit.isNull
             /\ policyForm.frequency_limit.n < 0
       THEN /\ error' = MsgPositive
            /\ UNCHANGED <<loading, inflight>>
     ELSE /\ Room(1)
          /\ error' = ""
          /\ loading' = TRUE
          /\ inflight' = Send(inflight, setPolicy(agent.id, policyForm))
  /\ UNCHANGED <<activeStep, agent, agentDefinition, availableTools,
                 selectedToolIds, policy, metadataForm, policyForm, qaVars,
                 serverVars>>

\* Variant: the frequency check placed before the approval check.
ClickSavePolicy_FrequencyFirst ==
  /\ activeStep = "policies"
  /\ ~loading
  /\ IF agent = NoAgent
       THEN /\ error' = MsgNoAgent
            /\ UNCHANGED <<loading, inflight>>
     ELSE IF /\ ~policyForm.frequency_limit.isNull
             /\ policyForm.frequency_limit.n <= 0
       THEN /\ error' = MsgPositive
            /\ UNCHANGED <<loading, inflight>>
     ELSE IF /\ policyForm.require_approval_for_all_tool_calls
             /\ Len(selectedToolIds) = 0
       THEN /\ error' = MsgUnusable
            /\ UNCHANGED <<loading, inflight>>
     ELSE /\ Room(1)
          /\ error' = ""
          /\ loading' = TRUE
          /\ inflight' = Send(inflight, setPolicy(agent.id, policyForm))
  /\ UNCHANGED <<activeStep, agent, agentDefinition, availableTools,
                 selectedToolIds, policy, metadataForm, policyForm, qaVars,
                 serverVars>>

\* handleSavePolicy up to its await ("Next: Review" is disabled by loading).
ClickSavePolicy ==
  /\ activeStep = "policies"
  /\ ~loading
  /\ IF agent = NoAgent
       THEN /\ error' = MsgNoAgent
            /\ UNCHANGED <<loading, inflight>>
     ELSE IF /\ policyForm.require_approval_for_all_tool_calls
             /\ Len(selectedToolIds) = 0
       THEN /\ error' = MsgUnusable
            /\ UNCHANGED <<loading, inflight>>
     ELSE IF /\ ~policyForm.frequency_limit.isNull
             /\ policyForm.frequency_limit.n <= 0
       THEN /\ error' = MsgPositive
            /\ UNCHANGED <<loading, inflight>>
     ELSE /\ Room(1)
          /\ error' = ""
          /\ loading' = TRUE
          /\ inflight' = Send(inflight, setPolicy(agent.id, policyForm))
  /\ UNCHANGED <<activeStep, agent, agentDefinition, availableTools,
                 selectedToolIds, policy, metadataForm, policyForm, qaVars,
                 serverVars>>

\* handleSavePolicy after the await resolves; the effect starts
\* fetchDefinition and ReviewStep mounts.
SavePolicyOk ==
  \E r \in Pending("setPolicy") :
    /\ policy' = [agent_id |-> r.agentId]
    /\ activeStep' = "review"
    /\ LET e == AfterEffect("review", agent, availableTools, error, FALSE,
                            Take(inflight, r))
       IN /\ error' = e.error
          /\ loading' = e.loading
          /\ inflight' = e.inflight
    /\ QaMount
    /\ UNCHANGED <<agent, agentDefinition, availableTools, selectedToolIds,
                   metadataForm, policyForm, serverVars>>

\* Variant: the catch block falls through to setActiveStep("review").
SavePolicyFail_Advances ==
  \E r \in Pending("setPolicy") : \E d \in Details :
    /\ activeStep' = "review"
    /\ LET e == AfterEffect("review", agent, availableTools,
                            Coalesce(d, MsgSavePolicy), FALSE,
                            Take(inflight, r))
       IN /\ error' = e.error
          /\ loading' = e.loading
          /\ inflight' = e.inflight
    /\ QaMount
    /\ UNCHANGED <<agent, agentDefinition, availableTools, selectedToolIds,
                   policy, metadataForm, policyForm, serverVars>>

\* handleSavePolicy when the await rejects: catch, then finally.
SavePolicyFail ==
  \E r \in Pending("setPolicy") : \E d \in Details :
    /\ error' = Coalesce(d, MsgSavePolicy)
    /\ loading' = FALSE
    /\ inflight' = Take(inflight, r)
    /\ UNCHANGED <<activeStep, agent, agentDefinition, availableTools,
                   selectedToolIds, policy, metadataForm, policyForm,
                   qaVars, serverVars>>

(* ----------------------------- review step ----------------------------- *)
\* fetchDefinition after its await.
GetDefinitionOk ==
  \E r \in Pending("getDefinition") :
    /\ agentDefinition' = [agent_id |-> r.agentId]
    /\ loading' = FALSE
    /\ inflight' = Take(inflight, r)
    /\ UNCHANGED <<activeStep, agent, availableTools, selectedToolIds,
                   policy, error, metadataForm, policyForm, qaVars,
                   serverVars>>

GetDefinitionFail ==
  \E r \in Pending("getDefinition") :
    /\ error' = MsgDefinition
    /\ loading' = FALSE
    /\ inflight' = Take(inflight, r)
    /\ UNCHANGED <<activeStep, agent, agentDefinition, availableTools,
                   selectedToolIds, policy, metadataForm, policyForm,
                   qaVars, serverVars>>

\* Variant: onBack of the review step also drops the fetched definition.
BackToPolicies_ClearsDefinition ==
  /\ activeStep = "review"
  /\ ~loading
  /\ agent # NoAgent => Room(1)
  /\ activeStep' = "policies"
  /\ LET e == AfterEffect("policies", agent, availableTools, error, loading,
                          Unmounted(inflight))
     IN /\ error' = e.error
        /\ loading' = e.loading
        /\ inflight' = e.inflight
  /\ QaMount
  /\ agentDefinition' = NoDefinition
  /\ UNCHANGED <<agent, availableTools, selectedToolIds,
                 policy, metadataForm, policyForm, serverVars>>

\* ReviewStep Back: the step changes, ReviewStep unmounts, and the effect
\* starts fetchSelectedTools.
BackToPolicies ==
  /\ activeStep = "review"
  /\ ~loading
  /\ agent # NoAgent => Room(1)
  /\ activeStep' = "policies"
  /\ LET e == AfterEffect("policies", agent, availableTools, error, loading,
                          Unmounted(inflight))
     IN /\ error' = e.error
        /\ loading' = e.loading
        /\ inflight' = e.inflight
  /\ QaMount
  /\ UNCHANGED <<agent, agentDefinition, availableTools, selectedToolIds,
                 policy, metadataForm, policyForm, serverVars>>

\* The question textarea, shown once a definition is displayed.
EditQuestion ==
  /\ activeStep = "review"
  /\ agentDefinition # NoDefinition
  /\ agentDefinition.agent_id # 0
  /\ \E q \in QuestionInputs :
       /\ q # question
       /\ question' = q
  /\ answer' = NoText
  /\ qaError' = NoText
  /\ UNCHANGED <<pageVars, qaLoading, inflight, serverVars>>

\* onAsk up to its await (Ask is disabled unless canAsk).
ClickAsk ==
  /\ activeStep = "review"
  /\ agentDefinition # NoDefinition
  /\ canAsk
  /\ Room(1)
  /\ qaError' = NoText
  /\ answer' = NoText
  /\ qaLoading' = TRUE
  /\ inflight' = Send(inflight, askAgent(agentDefinition.agent_id, question))
  /\ UNCHANGED <<pageVars, question, serverVars>>

\* onAsk after the await; a stale continuation changes nothing displayed.
AskOk ==
  \E r \in Pending("askAgent") :
    /\ IF r.stale
         THEN UNCHANGED <<answer, qaLoading>>
         ELSE /\ answer' = Text("answer")
              /\ qaLoading' = FALSE
    /\ inflight' = Take(inflight, r)
    /\ UNCHANGED <<pageVars, question, qaError, serverVars>>

AskFail ==
  \E r \in Pending("askAgent") : \E d \in Details :
    /\ IF r.stale
         THEN UNCHANGED <<qaError, qaLoading>>
         ELSE /\ qaError' = Text(FirstTruthy(d, "Network Error", MsgAsk))
              /\ qaLoading' = FALSE
    /\ inflight' = Take(inflight, r)
    /\ UNCHANGED <<pageVars, question, answer, serverVars>>

(* ------------------------------- system -------------------------------- *)
Next ==
  \/ EditMetadata
  \/ ClickCreateAgent
  \/ CreateAgentOk
  \/ CreateAgentFail
  \/ GetToolsOk
  \/ GetToolsFail
  \/ Toggle
  \/ BackToMetadata
  \/ ClickSaveTools
  \/ SaveToolsOk
  \/ SaveToolsFail
  \/ GetAgentToolsOk
  \/ GetAgentToolsFail
  \/ EditPolicy
  \/ BackToTools
  \/ ClickSavePolicy
  \/ SavePolicyOk
  \/ SavePolicyFail
  \/ GetDefinitionOk
  \/ GetDefinitionFail
  \/ BackToPolicies
  \/ EditQuestion
  \/ ClickAsk
  \/ AskOk
  \/ AskFail

Spec == Init /\ [][Next]_vars

(* Every request the page waits for with loading set is eventually
   answered, with a success or with a rejection. *)
FairSpec ==
  /\ Spec
  /\ WF_vars(CreateAgentOk \/ CreateAgentFail)
  /\ WF_vars(SaveToolsOk \/ SaveToolsFail)
  /\ WF_vars(SavePolicyOk \/ SavePolicyFail)
  /\ WF_vars(GetDefinitionOk \/ GetDefinitionFail)

TypeOK ==
  /\ activeStep \in Range(steps)
  /\ loading \in BOOLEAN
  /\ agent.id \in 0..MaxAgents
  /\ InFlightCount <= MaxInFlight
  /\ serverTools.agentId \in 0..MaxAgents
  /\ Range(serverTools.ids) \subseteq Range(ToolCatalog)

(* ------------------------- vocabulary of the claims -------------------- *)
SubmitKinds == {"createAgent", "setAgentTools", "setPolicy"}

CountOf(reqs, kinds) ==
  LET S == {r \in BagToSet(reqs) : r.kind \in kinds}
  IN BagCardinality([r \in S |-> reqs[r]])

SubmitCount == CountOf(inflight, SubmitKinds)

SetOf(ids) == {ids[i] : i \in 1..Len(ids)}

NoDuplicates(ids) == \A i, j \in 1..Len(ids) : ids[i] = ids[j] => i = j

\* Length of s between its first and its last character that is not a space.
TrimmedLen(s) ==
  LET I == {i \in 1..Len(s) : s[i] # SP}
  IN IF I = {} THEN 0
     ELSE (CHOOSE i \in I : \A j \in I : j <= i)
          - (CHOOSE i \in I : \A j \in I : i <= j) + 1

MeetsThresholds(form) ==
  /\ TrimmedLen(form.name) >= 1
  /\ TrimmedLen(form.description) >= 10
  /\ TrimmedLen(form.purpose) >= 5
  /\ TrimmedLen(form.model) >= 1

SubmitOk == CreateAgentOk \/ SaveToolsOk \/ SavePolicyOk
SubmitFail == CreateAgentFail \/ SaveToolsFail \/ SavePolicyFail
Back == BackToMetadata \/ BackToTools \/ BackToPolicies

NonPositive(f) == ~f.isNull /\ f.n <= 0

\* askAgent requests in flight, and those among them that the ReviewStep
\* now rendered has issued.
AskCount == CountOf(inflight, {"askAgent"})

MountedAskCount ==
  LET S == {r \in BagToSet(inflight) : r.kind = "askAgent" /\ ~r.stale}
  IN BagCardinality([r \in S |-> inflight[r]])

AskGate ==
  /\ agentDefinition.agent_id # 0
  /\ TrimmedLen(question) >= 1
  /\ ~qaLoading

\* Copies of request r in the bag reqs.
Copies(reqs, r) == IF r \in BagToSet(reqs) THEN reqs[r] ELSE 0

\* The requests whose URL carries the id of the agent being built.
AgentKinds == {"setAgentTools", "setPolicy", "getDefinition"}

\* The requests whose handlers set loading.
LoadingKinds == SubmitKinds \cup {"getDefinition"}

\* The submit button of the active step can be clicked.
SubmitEnabled ==
  /\ ~loading
  /\ activeStep \in {"metadata", "tools", "policies"}
  /\ activeStep = "metadata" => MeetsThresholds(metadataForm)

(* C1: at every moment at most one network request is in flight, counting
   every request the page can issue. *)
C1_AtMostOneRequestInFlight == InFlightCount <= 1

(* C2: while loading is true no submit action can be started, so at most one
   of createAgent, setAgentTools and setPolicy is in flight, and loading is
   true for as long as it is. *)
C2_NoDuplicateSubmission ==
  /\ [](SubmitCount <= 1 /\ (SubmitCount = 1 => loading))
  /\ [][CountOf(inflight', SubmitKinds) > SubmitCount => ~loading]_vars

C2_Witness ==
  /\ activeStep = "tools"
  /\ Pending("setAgentTools") # {}
  /\ Pending("getTools") # {}

(* C3: the active step moves forward only by the successful response to the
   submit request of the step shown: createAgent on metadata, setAgentTools
   on tools, setPolicy on policies. *)
C3_ForwardOnlyOnSubmitSuccess ==
  [][StepIndex(activeStep') > StepIndex(activeStep) =>
       \/ activeStep = "metadata" /\ CreateAgentOk
       \/ activeStep = "tools" /\ SaveToolsOk
       \/ activeStep = "policies" /\ SavePolicyOk]_vars

C3_Witness ==
  /\ activeStep = "review"
  /\ agent # NoAgent
  /\ policy.agent_id = agent.id

(* C4: after a failed submit the active step is unchanged and the error
   state is non-empty (the backend's detail, or the step's fallback). *)
C4_FailedSubmitShowsError ==
  [][SubmitFail => activeStep' = activeStep /\ error' # ""]_vars

(* C5: the active step is always one of the four steps, and every change of
   it goes to the next step by a successful submit or to the previous step
   by Back; review has no forward transition. *)
C5_LinearSteps ==
  /\ [](activeStep \in Range(steps))
  /\ [][activeStep' # activeStep =>
          \/ /\ StepIndex(activeStep') = StepIndex(activeStep) + 1
             /\ SubmitOk
          \/ /\ StepIndex(activeStep') = StepIndex(activeStep) - 1
             /\ Back]_vars

C5_Witness ==
  /\ activeStep = "tools"
  /\ agent # NoAgent
  /\ policy.agent_id = agent.id

(* C6: a step to the previous step (Back) leaves the agent, both forms, the
   selected tool ids, the saved policy and the definition unchanged and
   sends no write request. *)
C6_BackChangesOnlyTheStep ==
  [][StepIndex(activeStep') < StepIndex(activeStep) =>
       /\ UNCHANGED <<agent, metadataForm, policyForm, selectedToolIds,
                      policy, agentDefinition>>
       /\ CountOf(inflight', SubmitKinds) = CountOf(inflight, SubmitKinds)
       /\ UNCHANGED serverVars]_vars

C6_Witness ==
  /\ activeStep = "policies"
  /\ agent # NoAgent
  /\ agentDefinition.agent_id = agent.id
  /\ Pending("getAgentTools") # {}

(* C7: a createAgent request is sent only from a form with a non-blank name,
   a description of at least 10 and a purpose of at least 5 characters after
   trimming and a non-blank model, and only while nothing is loading. *)
C7_CreateOnlyFromValidForm ==
  /\ [](\A r \in Pending("createAgent") : MeetsThresholds(r.meta))
  /\ [](NextToolsEnabled => MeetsThresholds(metadataForm) /\ ~loading)
  /\ [][CountOf(inflight', {"createAgent"}) > CountOf(inflight, {"createAgent"})
          => ~loading /\ MeetsThresholds(metadataForm)]_vars

C7_Witness ==
  /\ Pending("createAgent") # {}
  /\ metadataForm.description = StrDesc9

(* C8 as stated: a setPolicy request carries a frequency limit that is null
   or positive, and a submit with a limit <= 0 sends nothing, stays on
   policies with loading false and shows the must-be-positive message. *)
C8_Original ==
  /\ [](\A r \in Pending("setPolicy") : ~NonPositive(r.pol.frequency_limit))
  /\ [][ClickSavePolicy /\ NonPositive(policyForm.frequency_limit) =>
          /\ inflight' = inflight
          /\ activeStep' = "policies"
          /\ ~loading'
          /\ error' = MsgPositive]_vars

(* C8 amended: as C8, except that the message is the 'unusable' warning when
   approval-for-all is set with zero tools selected. *)
C8_PositiveFrequencyOnly ==
  /\ [](\A r \in Pending("setPolicy") : ~NonPositive(r.pol.frequency_limit))
  /\ [][ClickSavePolicy /\ NonPositive(policyForm.frequency_limit) =>
          /\ inflight' = inflight
          /\ activeStep' = "policies"
          /\ ~loading'
          /\ error' =
               IF /\ policyForm.require_approval_for_all_tool_calls
                  /\ Len(selectedToolIds) = 0
                 THEN MsgUnusable ELSE MsgPositive]_vars

C8_Witness ==
  /\ activeStep = "policies"
  /\ error = MsgPositive
  /\ NonPositive(policyForm.frequency_limit)
  /\ ~loading

(* C9: a submit of the policy step with approval-for-all set and zero tools
   selected shows the 'unusable' warning, sends no request and stays on
   policies, whatever the frequency limit is. *)
C9_UnusableAgentWarning ==
  [][/\ ClickSavePolicy
     /\ policyForm.require_approval_for_all_tool_calls
     /\ Len(selectedToolIds) = 0
     => /\ error' = MsgUnusable
        /\ inflight' = inflight
        /\ activeStep' = "policies"
        /\ ~loading']_vars

C9_Witness ==
  /\ activeStep = "policies"
  /\ error = MsgUnusable
  /\ policyForm.require_approval_for_all_tool_calls
  /\ Len(selectedToolIds) = 0
  /\ NonPositive(policyForm.frequency_limit)
  /\ Pending("setPolicy") = {}

(* C10: a toggle flips the membership of the toggled id and of no other id;
   toggling twice restores the set, toggles of two tools commute as sets,
   and a list without duplicates stays without duplicates. *)
C10_ToggleFlipsOneId ==
  /\ [][Toggle =>
          \E t \in Range(availableTools) :
            /\ (t \in SetOf(selectedToolIds')) = (t \notin SetOf(selectedToolIds))
            /\ SetOf(selectedToolIds') \ {t} = SetOf(selectedToolIds) \ {t}
            /\ NoDuplicates(selectedToolIds) => NoDuplicates(selectedToolIds')
       ]_vars
  /\ [](\A t, u \in Range(ToolCatalog) :
          /\ SetOf(ToggleTool(ToggleTool(selectedToolIds, t), t))
               = SetOf(selectedToolIds)
          /\ SetOf(ToggleTool(ToggleTool(selectedToolIds, t), u))
               = SetOf(ToggleTool(ToggleTool(selectedToolIds, u), t)))

C10_Witness ==
  /\ activeStep = "tools"
  /\ selectedToolIds = <<2, 1>>


(* C11: provided every request completes, loading always returns to false,
   and it is true only while a request whose completion clears it is
   pending; a failed submit clears loading, stays on the step, leaves the
   metadata form, the policy form and the selected tools as they are, and
   the submit button of that step is enabled again (on the metadata step:
   when the form still holds the values that were submitted). *)
C11_ResubmitAfterFailure ==
  /\ (loading ~> ~loading)
  /\ [](loading => CountOf(inflight, LoadingKinds) >= 1)
  /\ [][SubmitFail =>
          /\ ~loading'
          /\ activeStep' = activeStep
          /\ UNCHANGED <<metadataForm, policyForm, selectedToolIds>>
          /\ (\A r \in Pending("createAgent") : r.meta = metadataForm)
               => SubmitEnabled']_vars

C11_Witness ==
  /\ activeStep = "policies"
  /\ error = MsgSavePolicy
  /\ ~loading
  /\ SubmitEnabled


(* C12 as stated: an askAgent request is sent only when a definition with an
   agent id is loaded, the question is non-blank after trimming and no ask
   is loading; while the review step is shown at most one askAgent request
   is in flight; answer and QA error are never both set, and starting an ask
   or editing the question clears both. *)
C12_Original ==
  /\ [][AskCount' > AskCount => AskGate]_vars
  /\ [](activeStep = "review" => AskCount <= 1)
  /\ [](~(answer.present /\ qaError.present))
  /\ [][ClickAsk \/ EditQuestion =>
          ~answer'.present /\ ~qaError'.present]_vars

(* C12 amended: as C12, with the bound of one request in flight holding for
   the askAgent requests issued by the ReviewStep now rendered; a request
   issued before Back was clicked may still be in flight next to it. *)
C12_OneAskPerMountedStep ==
  /\ [][AskCount' > AskCount => AskGate]_vars
  /\ [](MountedAskCount <= 1 /\ (qaLoading <=> MountedAskCount = 1))
  /\ [](~(answer.present /\ qaError.present))
  /\ [][ClickAsk \/ EditQuestion =>
          ~answer'.present /\ ~qaError'.present]_vars

C12_Witness ==
  /\ activeStep = "review"
  /\ qaLoading
  /\ MountedAskCount = 1
  /\ AskCount = 2


(* C13: an agent shown by the page is the one created last; while the
   policies or the review step is active the backend holds a tools
   assignment accepted for that agent, and while the review step is active
   a setPolicy for that agent has been accepted as well; every
   setAgentTools, setPolicy and getDefinition request is addressed, when it
   is sent, to the agent the page holds. *)
C13_StepsFollowAcceptedRequests ==
  /\ [](agent # NoAgent => agent.id = created)
  /\ [](activeStep \in {"policies", "review"} =>
          agent # NoAgent /\ serverTools.agentId = agent.id)
  /\ [](activeStep = "review" => policy.agent_id = agent.id)
  /\ [][\A r \in BagToSet(inflight') :
          r.kind \in AgentKinds /\ Copies(inflight', r) > Copies(inflight, r)
            => agent' # NoAgent /\ r.agentId = agent'.id]_vars

C13_Witness ==
  /\ activeStep = "review"
  /\ agent.id = 2
  /\ serverTools.agentId = 2
  /\ policy.agent_id = 2
  /\ \E r \in Pending("getDefinition") : r.agentId = 2


(* C14: whenever the review step is active, loading is false and a
   definition is displayed, the definition is that of the agent the page
   holds, the one created last. *)
C14_DisplayedDefinitionIsCurrent ==
  activeStep = "review" /\ ~loading /\ agentDefinition # NoDefinition
    => agentDefinition.agent_id = agent.id /\ agent.id = created


(* C15: while the tools step is active the selected tool ids change only by
   a toggle of the user or by the response to the save-tools submit; no
   response to getAgentTools changes them there. *)
C15_SelectionChangesOnlyByToggleOrSave ==
  [][activeStep = "tools" /\ selectedToolIds' # selectedToolIds
       => Toggle \/ SaveToolsOk]_vars


(* C16: in every reachable state with the tools, policies or review step
   active an agent has been created; the 'Agent not created' message is
   never shown, and every save-tools or save-policy click finds an agent and
   every setAgentTools and setPolicy request carries an agent id. *)
C16_AgentExistsPastMetadata ==
  /\ [](activeStep \in {"tools", "policies", "review"} => agent # NoAgent)
  /\ [](error # MsgNoAgent)
  /\ [](\A r \in Pending("setAgentTools") \cup Pending("setPolicy") :
          r.agentId # 0)
  /\ [][ClickSaveTools \/ ClickSavePolicy =>
          agent # NoAgent /\ error' # MsgNoAgent]_vars

C16_Witness ==
  /\ activeStep = "tools"
  /\ agent # NoAgent
  /\ loading
  /\ \E r \in Pending("setAgentTools") : r.agentId = agent.id /\ r.toolIds # << >>

====
